---- MODULE Spec2Model ----
(***************************************************************************)
(* The photobooth client: App's screen flow (src/src/App.jsx, with the     *)
(* selectedTemplate of src/unnamed/part_005), the landing screen's         *)
(* template buttons (src/unnamed/part_004), the camera screen              *)
(* (src/unnamed/part_003, the CameraScreen with filters and the            *)
(* template-dependent photo count), the processing screen                  *)
(* (src/unnamed/part_000), the strip composer                              *)
(* (src/src/utils/photoboothGenerator.js) and the result screen            *)
(* (src/unnamed/part_001).                                                 *)
(*                                                                         *)
(* One action is one task of the browser's event loop: a click handler, a  *)
(* timer callback, a promise continuation or a media event, together with  *)
(* the React re-render and the effects that the handler's state updates    *)
(* cause.                                                                  *)
(*                                                                         *)
(* The composer's layout functions compute with JavaScript numbers: their  *)
(* arithmetic is that of IEEE 754 doubles, each operation rounded to 53    *)
(* significant binary digits.                                              *)
(***************************************************************************)
EXTENDS Integers, Sequences, FiniteSets, TLC

\* ------------------------------------------------------------------ bounds
\* Clicks the user makes in one run of the model (start, cancel, switch camera,
\* capture, retake, new session).
MaxClicks == 5
\* startCamera calls made in one run of the model, by all camera-screen instances.
MaxCalls == 3
\* Longest photo list handed to generatePhotoboothStrip in SpecGen.
MaxGenPhotos == 3
\* Longest photo list handed to generatePhotoboothStrip in SpecPlace.
MaxPlacePhotos == 5
\* Largest photo count handed to a layout function in SpecLayout.
MaxLayoutPhotos == 8
\* Largest width or height, of the image and of the target, in SpecLayout.
MaxSide == 3
\* handleShare invocations on the result screen in SpecShare.
MaxShares == 1
\* Last value of the result screen's millisecond clock in SpecShare.
MaxTime == 1

\* ------------------------------------------------------------- basic values
Null == <<>>
Some(v) == <<v>>

\* Every camera-screen instance is mounted by a click or by a failed processing
\* run, which follows TOTAL_PHOTOS capture clicks.
Insts == 1..MaxClicks
Slots == 1..MaxCalls

FacingModes == {"user", "environment"}
ErrorNames == {"NotAllowedError", "NotFoundError", "NotReadableError", "OtherError"}
Templates == {"classic", "grid", "polaroid"}

\* CameraScreen's template parameter: App renders <CameraScreen> without a
\* template prop, so the parameter takes its default.
CameraTemplate == "classic"

\* template === "grid" ? 4 : 3
TotalPhotosFor(template) == IF template = "grid" THEN 4 ELSE 3

TOTAL_PHOTOS == TotalPhotosFor(CameraTemplate)

Opposite(mode) == IF mode = "user" THEN "environment" ELSE "user"

\* The categorized message startCamera's catch block builds from err.name.
ErrorMessage(name) ==
    CASE name = "NotAllowedError" -> "denied: allow camera permissions"
      [] name = "NotFoundError" -> "denied: no camera found"
      [] name = "NotReadableError" -> "denied: camera in use"
      [] OTHER -> "denied: refresh and try again"

NoCall == [pc |-> "none", mode |-> "user", timer |-> FALSE]

VARIABLES
    \* App (useState)
    screen, photos, finalStrip,
    \* camera-screen instances: how many were mounted, which one is mounted (0: none)
    mounts, cam,
    \* the mounted camera screen's React state
    camPhotos, isCapturing, error, facingMode, isSwitching,
    \* the countdown hook state of every instance (read by the interval's updater)
    countdown,
    \* the <video> element of the mounted camera screen
    videoSrc, videoReady,
    \* streamRef.current of every instance, and the streams whose tracks are live
    streamRef, running,
    \* the startCamera calls of every instance
    calls,
    \* timers of every instance: countdown interval, 100 ms capture timer and the
    \* photo list its capturePhoto closure holds, 500 ms hand-off timer
    interval, capTimer, cdPhotos, handoff,
    \* how often each instance has called onPhotosCaptured
    delivered,
    \* ProcessingScreen: position of processPhotos
    procPc,
    \* generatePhotoboothStrip: one invocation
    gen,
    \* clicks made so far
    clicks,
    \* App's selectedTemplate (src/unnamed/part_005) and the LandingScreen's own
    \* selectedTemplate (src/unnamed/part_004; "classic" while no landing screen
    \* is mounted)
    selectedTemplate, landingTemplate,
    \* the camera screen's isMuted (what the last instance had while none is
    \* mounted) and the localStorage item under SOUND_ENABLED_KEY
    isMuted, localStorage,
    \* ResultScreen: one mounted instance (SpecShare)
    res,
    \* the mounted camera screen's currentFilter, and the currentFilter of the
    \* render whose startCountdown started the countdown under way (the one the
    \* countdown's capturePhoto and applyFilter closures read)
    currentFilter, cdFilter,
    \* the last call of a layout function of the composer (SpecLayout)
    calc

appVars == <<screen, photos, finalStrip>>
camVars == <<mounts, cam, camPhotos, isCapturing, error, facingMode, isSwitching,
             countdown, videoSrc, videoReady, streamRef, running, calls,
             interval, capTimer, cdPhotos, handoff, delivered, currentFilter, cdFilter>>
vars == <<screen, photos, finalStrip, mounts, cam, camPhotos, isCapturing, error,
          facingMode, isSwitching, countdown, videoSrc, videoReady, streamRef,
          running, calls, interval, capTimer, cdPhotos, handoff, delivered, procPc,
          gen, clicks, selectedTemplate, landingTemplate, isMuted, localStorage, res,
          currentFilter, cdFilter, calc>>
tplVars == <<selectedTemplate, landingTemplate>>
muteVars == <<isMuted, localStorage>>
\* what only SpecShare and SpecLayout change
aloneVars == <<res, calc>>
sideVars == <<tplVars, muteVars, aloneVars>>
filterVars == <<currentFilter, cdFilter>>

Click ==
    /\ clicks < MaxClicks
    /\ clicks' = clicks + 1

\* ---------------------------------------------------- the strip composer
\* A data URL: which capture it is, what it decodes to, and the filter
\* applyFilter put on the frame. "jpeg" is a captured frame, "blank" the 'data:,'
\* a 0x0 canvas encodes to, "empty" the empty string.
Url(inst, n, kind, filter) == [inst |-> inst, n |-> n, kind |-> kind, filter |-> filter]

Op(name, i) == [op |-> name, i |-> i]

GenOptions(template, showConfetti, showVignette) ==
    [template |-> template, showConfetti |-> showConfetti, showVignette |-> showVignette]

\* options = {} : the defaults of the destructuring.
DefaultOptions == GenOptions("classic", FALSE, FALSE)

GenIdle ==
    [phase |-> "idle", isNull |-> FALSE, urls |-> <<>>, options |-> DefaultOptions,
     canvas |-> FALSE, decode |-> <<>>, log |-> <<>>, timer |-> FALSE,
     enc |-> "none", result |-> "", settles |-> 0]

Min(a, b) == IF a < b THEN a ELSE b

\* Number of placements getTemplatePlacements returns for photoCount photos.
PlacementCount(template, photoCount) ==
    CASE template = "grid" -> Min(photoCount, 4)
      [] template = "polaroid" -> Min(photoCount, 4)
      [] OTHER -> photoCount

\* The positions array of getGridPlacements.
GridPositions ==
    <<[col |-> 0, row |-> 0], [col |-> 1, row |-> 0],
      [col |-> 0, row |-> 1], [col |-> 1, row |-> 1]>>

\* Mutant of Placements: every template lays out one row per photo.
PlacementsUncapped(template, photoCount) ==
    [i \in 1..photoCount |-> [col |-> 0, row |-> i - 1]]

\* The placements getTemplatePlacements returns, by what tells them apart:
\* the row of the classic strip, the cell of the grid, the place in the
\* polaroid stack.
Placements(template, photoCount) ==
    CASE template = "grid" ->
           [i \in 1..PlacementCount(template, photoCount) |->
               [col |-> GridPositions[i].col, row |-> GridPositions[i].row]]
      [] template = "polaroid" ->
           [i \in 1..PlacementCount(template, photoCount) |-> [col |-> 0, row |-> i - 1]]
      [] OTHER ->
           [i \in 1..PlacementCount(template, photoCount) |-> [col |-> 0, row |-> i - 1]]

AllSettled(g) == \A i \in 1..Len(g.decode) : g.decode[i] # "pending"

\* resolve(...) or reject(...) of the promise generatePhotoboothStrip returns:
\* only the first call settles it.
Settle(g, phase, result) ==
    IF g.phase = "running"
    THEN [g EXCEPT !.phase = phase, !.result = result, !.settles = @ + 1]
    ELSE [g EXCEPT !.settles = @ + 1]

\* The .then branch of Promise.race: footer, optional effects, encode.
\* enc is what canvas.toDataURL does: "ok", "throws" or "empty" ('data:,').
GenJoin(g, enc) ==
    LET l1 == Append(g.log, Op("footer", 0))
        l2 == IF g.options.showConfetti THEN Append(l1, Op("confetti", 0)) ELSE l1
        l3 == IF g.options.showVignette THEN Append(l2, Op("vignette", 0)) ELSE l2
        l4 == Append(l3, Op("encode", 0))
        g1 == [g EXCEPT !.log = l4, !.enc = enc]
    IN  IF enc = "ok"
        THEN Settle(g1, "resolved", "image")
        ELSE Settle(g1, "rejected", "Failed to generate photobooth strip image")

\* Mutant of JoinIfSettled: the .then branch runs without Promise.all, as soon
\* as the race is still open.
JoinUnsettled(g, enc) ==
    IF g.phase = "running" THEN GenJoin(g, enc) ELSE g

\* Promise.all(photoPromises) resolving makes the race run its .then branch,
\* unless the timeout already settled the race.
JoinIfSettled(g, enc) ==
    IF g.phase = "running" /\ AllSettled(g) THEN GenJoin(g, enc) ELSE g

\* Mutant of GenCall: the guard on a missing or empty photo list is left out, so
\* an empty list goes on to the canvas and Promise.all([]) resolves at once.
GenCallUnchecked(isNull, urls, options, ctxOk, throws, enc) ==
    LET g0 == [GenIdle EXCEPT !.phase = "running", !.isNull = isNull,
                              !.urls = urls, !.options = options]
        dec == [i \in 1..Len(urls) |->
                   IF urls[i].kind = "empty" THEN "skipped"
                   ELSE IF i \in throws THEN "failed" ELSE "pending"]
        g1 == [g0 EXCEPT !.canvas = TRUE, !.decode = dec,
                         !.log = <<Op("header", 0)>>, !.timer = TRUE]
    IN  IF ~ctxOk
        THEN Settle([g0 EXCEPT !.canvas = TRUE], "rejected", "Canvas context not available")
        ELSE JoinIfSettled(g1, enc)

\* The synchronous part of generatePhotoboothStrip and the microtasks it leaves.
\* ctxOk: canvas.getContext('2d') returned a context; throws: the photos whose
\* img.src assignment throws.
GenCall(isNull, urls, options, ctxOk, throws, enc) ==
    LET g0 == [GenIdle EXCEPT !.phase = "running", !.isNull = isNull,
                              !.urls = urls, !.options = options]
    IN  IF isNull \/ Len(urls) = 0
        THEN Settle(g0, "rejected", "No photos provided")
        ELSE IF ~ctxOk
        THEN Settle([g0 EXCEPT !.canvas = TRUE], "rejected", "Canvas context not available")
        ELSE LET dec == [i \in 1..Len(urls) |->
                            IF urls[i].kind = "empty" \/ i \notin DOMAIN Placements(options.template, Len(urls))
                            THEN "skipped"
                            ELSE IF i \in throws THEN "failed"
                            ELSE "pending"]
                 g1 == [g0 EXCEPT !.canvas = TRUE, !.decode = dec,
                                  !.log = <<Op("header", 0)>>, !.timer = TRUE]
             IN  JoinIfSettled(g1, enc)

\* img.onload of photo i: the photo is drawn, its promise resolves.
GenLoad(g, i, enc) ==
    JoinIfSettled([g EXCEPT !.decode[i] = "loaded",
                            !.log = Append(@, Op("photo", i))], enc)

\* Mutant of GenError: img.onerror rejects the composite instead of resolving the
\* photo's promise.
GenErrorRejects(g, i, enc) ==
    Settle([g EXCEPT !.decode[i] = "failed"], "rejected", "Failed to load photo")

\* img.onerror of photo i: its promise resolves, nothing is drawn.
GenError(g, i, enc) ==
    JoinIfSettled([g EXCEPT !.decode[i] = "failed"], enc)

\* Mutant of GenTimeout: the timer rejects the returned promise directly, not
\* through the race.
GenTimeoutUnraced(g) ==
    Settle([g EXCEPT !.timer = FALSE], "rejected", "Photo processing timeout")

\* Mutant of GenTimeout: the timer callback rejects nothing.
GenTimeoutSilent(g) == [g EXCEPT !.timer = FALSE]

\* The 30 s timer: timeoutPromise rejects; the race's .catch rejects the
\* returned promise unless the race was settled before.
GenTimeout(g) ==
    LET g1 == [g EXCEPT !.timer = FALSE]
    IN  IF g.phase = "running"
        THEN Settle(g1, "rejected", "Photo processing timeout")
        ELSE g1

EncOutcomes == {"ok", "throws", "empty"}

\* An image whose source is 'data:,' cannot load; a captured frame loads, or fails.
CanLoad(url) == url.kind = "jpeg"

\* ------------------------------------------------------- the camera screen
Mounted(i) == cam = i

\* videoRef.current and canvasRef.current of instance i: the elements exist while
\* the instance is mounted and renders its normal screen (not the error screen).
HasVideo(i) == cam = i /\ error = Null

NextSlot(i) == Cardinality({k \in Slots : calls[i][k].pc # "none"}) + 1

\* stopCamera: streamRef.current's tracks are stopped and the ref is cleared.
RunningAfterStop(sr, run, i) == IF sr[i] # Null THEN run \ {sr[i]} ELSE run
RefAfterStop(sr, i) == [sr EXCEPT ![i] = Null]

HandoffPending == \E i \in 1..mounts : handoff[i] # Null

NumCalls == Cardinality({ik \in (1..mounts) \X Slots : calls[ik[1]][ik[2]].pc # "none"})

\* The countdown of the last photo, a pending hand-off or a processing run may
\* still mount a camera screen (handleProcessingError): its startCamera call is
\* kept free under MaxCalls.
LastCountdown == cam # 0 /\ isCapturing /\ Len(cdPhotos) + 1 >= TOTAL_PHOTOS
Reserved == IF LastCountdown \/ HandoffPending \/ screen = "processing" THEN 1 ELSE 0
CallFree == NumCalls + Reserved < MaxCalls

\* The camera screen unmounts: its React state is gone. The 1 s fallback timers of
\* its startCamera calls stay armed, but their callback only calls
\* setIsSwitching on the unmounted component, which React ignores; they are
\* dropped here.
NoCamera ==
    /\ cam' = 0
    /\ calls' = [calls EXCEPT ![cam] = [k \in Slots |-> [calls[cam][k] EXCEPT !.timer = FALSE]]]
    /\ camPhotos' = <<>>
    /\ isCapturing' = FALSE
    /\ error' = Null
    /\ facingMode' = "user"
    /\ isSwitching' = FALSE
    /\ videoSrc' = Null
    /\ videoReady' = FALSE
    /\ cdPhotos' = <<>>
    /\ currentFilter' = "none"
    /\ cdFilter' = "none"

\* (!isMuted).toString(): what the persist effect stores.
BoolToString(b) == IF b THEN "true" ELSE "false"

\* Mutant of InitialMuted: the stored string is read as the muted flag.
InitialMutedInverted(item) == item = Some("true")

\* useState's initializer of isMuted: localStorage.getItem(SOUND_ENABLED_KEY)
\* === 'false' (null when nothing is stored).
InitialMuted(item) == item = Some("false")

\* <CameraScreen> mounts: useState initial values, then the effect calls
\* startCamera(facingMode), whose synchronous part finds no stream to stop, and
\* the [isMuted] effect stores the preference.
\* sr, run: streamRef and running as the rest of the handler left them.
MountCamera(sr, run) ==
    /\ mounts' = mounts + 1
    /\ cam' = mounts + 1
    /\ camPhotos' = <<>>
    /\ isCapturing' = FALSE
    /\ error' = Null
    /\ facingMode' = "user"
    /\ isSwitching' = FALSE
    /\ countdown' = [countdown EXCEPT ![mounts + 1] = Null]
    /\ videoSrc' = Null
    /\ videoReady' = FALSE
    /\ cdPhotos' = <<>>
    /\ currentFilter' = "none"
    /\ cdFilter' = "none"
    /\ streamRef' = sr
    /\ running' = run
    /\ calls' = [calls EXCEPT ![mounts + 1][1] =
                    [pc |-> "delay", mode |-> "user", timer |-> FALSE]]
    /\ isMuted' = InitialMuted(localStorage)
    /\ localStorage' = Some(BoolToString(~InitialMuted(localStorage)))
    /\ UNCHANGED <<interval, capTimer, handoff, delivered>>

\* The [facingMode] effect re-running for the mounted instance: the cleanup
\* stopCamera(), then startCamera(mode) up to its first await (stop the held
\* stream, clear the video source, start the 100 ms delay).
RestartCamera(sr, run, mode) ==
    /\ CallFree
    /\ streamRef' = RefAfterStop(sr, cam)
    /\ running' = RunningAfterStop(sr, run, cam)
    /\ videoSrc' = IF HasVideo(cam) THEN Null ELSE videoSrc
    /\ videoReady' = IF HasVideo(cam) THEN FALSE ELSE videoReady

\* switchCamera (click on the switch button of the normal screen).
SwitchCamera ==
    /\ Click
    /\ UNCHANGED <<sideVars, filterVars>>
    /\ screen = "camera" /\ cam # 0 /\ error = Null
    /\ ~(isSwitching \/ isCapturing)
    /\ isSwitching' = TRUE
    /\ facingMode' = Opposite(facingMode)
    /\ RestartCamera(streamRef, running, Opposite(facingMode))
    /\ calls' = [calls EXCEPT ![cam][NextSlot(cam)] =
                    [pc |-> "delay", mode |-> Opposite(facingMode), timer |-> FALSE]]
    /\ UNCHANGED <<appVars, mounts, cam, camPhotos, isCapturing, error, countdown,
                   interval, capTimer, cdPhotos, handoff, delivered, procPc, gen>>

\* startCamera: the 100 ms delay is over, getUserMedia(mode) is requested.
DelayDone(i, k) ==
    /\ UNCHANGED clicks
    /\ UNCHANGED <<sideVars, filterVars>>
    /\ calls[i][k].pc = "delay"
    /\ calls' = [calls EXCEPT ![i][k].pc = "gum1"]
    /\ UNCHANGED <<appVars, mounts, cam, camPhotos, isCapturing, error, facingMode,
                   isSwitching, countdown, videoSrc, videoReady, streamRef, running,
                   interval, capTimer, cdPhotos, handoff, delivered, procPc, gen>>

GumPending(i, k) == calls[i][k].pc \in {"gum1", "gum2", "gum3"}

\* A getUserMedia request of call k resolves with a stream. The stream is stored
\* in streamRef and attached to the video; after the second request
\* setFacingMode(fallbackMode) re-runs the effect when it changes the state.
GumSucceed(i, k) ==
    LET c == calls[i][k]
        id == <<i, k>>
        reface == c.pc = "gum2" /\ Mounted(i) /\ facingMode # Opposite(c.mode)
        sr1 == [streamRef EXCEPT ![i] = id]
        run1 == running \cup {id}
    IN  /\ GumPending(i, k)
        /\ UNCHANGED clicks
        /\ UNCHANGED <<sideVars, filterVars>>
        /\ IF reface
           THEN /\ facingMode' = Opposite(c.mode)
                /\ RestartCamera(sr1, run1, Opposite(c.mode))
                /\ calls' = [calls EXCEPT
                       ![i][k] = [pc |-> "done", mode |-> c.mode, timer |-> HasVideo(i)],
                       ![i][NextSlot(i)] =
                           [pc |-> "delay", mode |-> Opposite(c.mode), timer |-> FALSE]]
           ELSE /\ streamRef' = sr1
                /\ running' = run1
                /\ videoSrc' = IF HasVideo(i) THEN id ELSE videoSrc
                /\ videoReady' = IF HasVideo(i) THEN FALSE ELSE videoReady
                /\ calls' = [calls EXCEPT
                       ![i][k] = [pc |-> "done", mode |-> c.mode, timer |-> HasVideo(i)]]
                /\ UNCHANGED facingMode
        /\ UNCHANGED <<appVars, mounts, cam, camPhotos, isCapturing, error, isSwitching,
                       countdown, interval, capTimer, cdPhotos, handoff, delivered,
                       procPc, gen>>

\* The first or second getUserMedia request of call k rejects: the catch around
\* it makes the next request of the chain (opposite mode, then any device).
GumFail(i, k) ==
    /\ UNCHANGED clicks
    /\ UNCHANGED <<sideVars, filterVars>>
    /\ calls[i][k].pc \in {"gum1", "gum2"}
    /\ calls' = [calls EXCEPT ![i][k].pc = IF @ = "gum1" THEN "gum2" ELSE "gum3"]
    /\ UNCHANGED <<appVars, mounts, cam, camPhotos, isCapturing, error, facingMode,
                   isSwitching, countdown, videoSrc, videoReady, streamRef, running,
                   interval, capTimer, cdPhotos, handoff, delivered, procPc, gen>>

\* The third getUserMedia request of call k rejects with an error named name:
\* startCamera's outer catch sets the error message and clears isSwitching.
GumFailLast(i, k, name) ==
    /\ UNCHANGED clicks
    /\ UNCHANGED <<sideVars, filterVars>>
    /\ calls[i][k].pc = "gum3"
    /\ calls' = [calls EXCEPT ![i][k].pc = "done"]
    /\ IF Mounted(i)
       THEN /\ error' = Some(ErrorMessage(name))
            /\ isSwitching' = FALSE
       ELSE UNCHANGED <<error, isSwitching>>
    /\ UNCHANGED <<appVars, mounts, cam, camPhotos, isCapturing, facingMode,
                   countdown, videoSrc, videoReady, streamRef, running,
                   interval, capTimer, cdPhotos, handoff, delivered, procPc, gen>>

\* video.onloadedmetadata: setError(null), setIsSwitching(false). The element
\* that got the stream may have been replaced by the error screen meanwhile; its
\* event then clears the error and the normal screen renders a new <video>.
LoadedMetadata ==
    /\ UNCHANGED clicks
    /\ UNCHANGED <<sideVars, filterVars>>
    /\ cam # 0 /\ videoSrc # Null /\ ~videoReady /\ videoSrc \in running
    /\ error' = Null
    /\ isSwitching' = FALSE
    /\ IF error = Null
       THEN videoReady' = TRUE /\ UNCHANGED videoSrc
       ELSE videoReady' = FALSE /\ videoSrc' = Null
    /\ UNCHANGED <<appVars, mounts, cam, camPhotos, isCapturing, facingMode, countdown,
                   streamRef, running, calls, interval, capTimer, cdPhotos, handoff,
                   delivered, procPc, gen>>

\* The 1 s fallback timer of call k's wait for the video.
MetaTimeout(i, k) ==
    /\ UNCHANGED clicks
    /\ UNCHANGED <<sideVars, filterVars>>
    /\ calls[i][k].timer
    /\ calls' = [calls EXCEPT ![i][k].timer = FALSE]
    /\ isSwitching' = IF Mounted(i) THEN FALSE ELSE isSwitching
    /\ UNCHANGED <<appVars, mounts, cam, camPhotos, isCapturing, error, facingMode,
                   countdown, videoSrc, videoReady, streamRef, running,
                   interval, capTimer, cdPhotos, handoff, delivered, procPc, gen>>

\* startCountdown (click on the capture button of the normal screen).
StartCountdown ==
    /\ Click
    /\ UNCHANGED <<sideVars, currentFilter>>
    /\ cdFilter' = currentFilter
    /\ screen = "camera" /\ cam # 0 /\ error = Null
    /\ ~(isCapturing \/ Len(camPhotos) >= TOTAL_PHOTOS)
    \* bound: the countdown of the last photo leaves a startCamera call free
    /\ Len(camPhotos) + 1 >= TOTAL_PHOTOS => NumCalls < MaxCalls
    /\ isCapturing' = TRUE
    /\ countdown' = [countdown EXCEPT ![cam] = Some(3)]
    /\ interval' = [interval EXCEPT ![cam] = TRUE]
    /\ cdPhotos' = camPhotos
    /\ UNCHANGED <<appVars, mounts, cam, camPhotos, error, facingMode, isSwitching,
                   videoSrc, videoReady, streamRef, running, calls, capTimer,
                   handoff, delivered, procPc, gen>>

\* One tick of an instance's 1 s countdown interval: the setCountdown updater.
\* A tick of the mounted instance comes at least 1 s after its countdown
\* started, so after every 500 ms hand-off timer armed before that.
Tick(i) ==
    /\ UNCHANGED clicks
    /\ UNCHANGED <<sideVars, filterVars>>
    /\ interval[i]
    /\ Mounted(i) => ~HandoffPending
    /\ LET prev == countdown[i][1]
       IN  IF prev <= 1
           THEN /\ interval' = [interval EXCEPT ![i] = FALSE]
                /\ capTimer' = [capTimer EXCEPT ![i] = TRUE]
                /\ countdown' = [countdown EXCEPT ![i] = Some(0)]
           ELSE /\ countdown' = [countdown EXCEPT ![i] = Some(prev - 1)]
                /\ UNCHANGED <<interval, capTimer>>
    /\ UNCHANGED <<appVars, mounts, cam, camPhotos, isCapturing, error, facingMode,
                   isSwitching, videoSrc, videoReady, streamRef, running, calls,
                   cdPhotos, handoff, delivered, procPc, gen>>

\* Mutant of NewPhotos: the new photo is put in front of the list.
NewPhotosPrepended(i) ==
    <<Url(i, Len(cdPhotos) + 1, IF videoReady THEN "jpeg" ELSE "blank", cdFilter)>>
        \o cdPhotos

\* Mutant of NewPhotos: applyFilter reads the filter selected at capture time.
NewPhotosLiveFilter(i) ==
    Append(cdPhotos, Url(i, Len(cdPhotos) + 1, IF videoReady THEN "jpeg" ELSE "blank",
                         currentFilter))

\* capturePhoto as the countdown's closure sees it: photos is the list of the
\* render that started the countdown (cdPhotos), isCapturing is false there and
\* currentFilter is that render's (cdFilter).
\* The frame is blank while the video has no metadata (videoWidth 0).
NewPhotos(i) ==
    Append(cdPhotos, Url(i, Len(cdPhotos) + 1, IF videoReady THEN "jpeg" ELSE "blank",
                         cdFilter))

\* applyFilter with a filter selected calls ctx.getImageData(0, 0, canvas.width,
\* canvas.height), which throws IndexSizeError for the 0x0 canvas of a video
\* without a frame; capturePhoto and the timer callback do not catch it.
CaptureThrows(i) == HasVideo(i) /\ cdFilter # "none" /\ ~videoReady

\* Mutant of CaptureTimer: capturePhoto without its test of videoRef.current
\* and canvasRef.current.
CaptureTimerUnchecked(i) ==
    /\ UNCHANGED clicks
    /\ UNCHANGED sideVars
    /\ capTimer[i]
    /\ capTimer' = [capTimer EXCEPT ![i] = FALSE]
    /\ countdown' = [countdown EXCEPT ![i] = Null]
    /\ camPhotos' = NewPhotos(i)
    /\ handoff' = IF Len(NewPhotos(i)) >= TOTAL_PHOTOS
                  THEN [handoff EXCEPT ![i] = Some(NewPhotos(i))]
                  ELSE handoff
    /\ isCapturing' = IF Mounted(i) THEN FALSE ELSE isCapturing
    /\ cdPhotos' = IF Mounted(i) THEN <<>> ELSE cdPhotos
    /\ cdFilter' = IF Mounted(i) THEN "none" ELSE cdFilter
    /\ UNCHANGED currentFilter
    /\ UNCHANGED <<appVars, mounts, cam, error, facingMode, isSwitching, videoSrc,
                   videoReady, streamRef, running, calls, interval, delivered,
                   procPc, gen>>

\* The 100 ms timer after the countdown reached 0: capturePhoto(),
\* setIsCapturing(false), setCountdown(null).
CaptureTimer(i) ==
    /\ UNCHANGED clicks
    /\ UNCHANGED sideVars
    /\ capTimer[i]
    /\ capTimer' = [capTimer EXCEPT ![i] = FALSE]
    /\ IF CaptureThrows(i)
       THEN UNCHANGED <<countdown, camPhotos, handoff, isCapturing, cdPhotos, cdFilter>>
       ELSE /\ countdown' = [countdown EXCEPT ![i] = Null]
            /\ IF HasVideo(i)
               THEN /\ camPhotos' = NewPhotos(i)
                    /\ handoff' = IF Len(NewPhotos(i)) >= TOTAL_PHOTOS
                                  THEN [handoff EXCEPT ![i] = Some(NewPhotos(i))]
                                  ELSE handoff
               ELSE UNCHANGED <<camPhotos, handoff>>
            /\ isCapturing' = IF Mounted(i) THEN FALSE ELSE isCapturing
            /\ cdPhotos' = IF Mounted(i) THEN <<>> ELSE cdPhotos
            /\ cdFilter' = IF Mounted(i) THEN "none" ELSE cdFilter
    /\ UNCHANGED currentFilter
    /\ UNCHANGED <<appVars, mounts, cam, error, facingMode, isSwitching, videoSrc,
                   videoReady, streamRef, running, calls, interval, delivered,
                   procPc, gen>>

\* filters[(currentIndex + 1) % filters.length].id
NextFilter(f) ==
    CASE f = "none" -> "bw"
      [] f = "bw" -> "vintage"
      [] OTHER -> "none"

\* The filter button of the normal screen: setCurrentFilter of the next filter.
CycleFilter ==
    /\ Click
    /\ screen = "camera" /\ cam # 0 /\ error = Null
    /\ currentFilter' = NextFilter(currentFilter)
    /\ UNCHANGED <<appVars, mounts, cam, camPhotos, isCapturing, error, facingMode,
                   isSwitching, countdown, videoSrc, videoReady, streamRef, running,
                   calls, interval, capTimer, cdPhotos, handoff, delivered, cdFilter,
                   procPc, gen, sideVars>>

\* handleCancel (the close button, or Go Back on the error screen): stopCamera(),
\* onCancel() = setScreen('landing'); the camera screen unmounts.
Cancel ==
    /\ Click
    /\ UNCHANGED sideVars
    /\ screen = "camera" /\ cam # 0
    /\ streamRef' = RefAfterStop(streamRef, cam)
    /\ running' = RunningAfterStop(streamRef, running, cam)
    /\ screen' = "landing"
    /\ NoCamera
    /\ UNCHANGED <<photos, finalStrip, mounts, countdown, interval, capTimer,
                   handoff, delivered, procPc, gen>>

\* The 500 ms hand-off timer of instance i: stopCamera(), onPhotosCaptured(newPhotos)
\* = handlePhotosCaptured: setPhotos, setScreen('processing'). A mounted camera
\* screen unmounts (its cleanup stops its stream); ProcessingScreen mounts and its
\* effect starts processPhotos when the list is not empty.
HandoffFire(i) ==
    LET newPhotos == handoff[i][1]
        sr1 == RefAfterStop(streamRef, i)
        run1 == RunningAfterStop(streamRef, running, i)
    IN  /\ handoff[i] # Null
        /\ UNCHANGED clicks
        /\ selectedTemplate' = selectedTemplate
        /\ landingTemplate' = "classic"
        /\ UNCHANGED <<muteVars, aloneVars>>
        /\ handoff' = [handoff EXCEPT ![i] = Null]
        /\ delivered' = [delivered EXCEPT ![i] = @ + 1]
        /\ photos' = newPhotos
        /\ screen' = "processing"
        /\ IF cam # 0
           THEN /\ streamRef' = RefAfterStop(sr1, cam)
                /\ running' = RunningAfterStop(sr1, run1, cam)
           ELSE /\ streamRef' = sr1
                /\ running' = run1
        /\ IF cam # 0 THEN NoCamera ELSE UNCHANGED <<cam, camPhotos, isCapturing, error,
                 facingMode, isSwitching, videoSrc, videoReady, cdPhotos, calls,
                 filterVars>>
        /\ procPc' = IF Len(newPhotos) > 0 THEN "delay" ELSE procPc
        /\ UNCHANGED <<finalStrip, mounts, countdown, interval, capTimer, gen>>

\* toggleMute (the mute button of the normal screen), and the [isMuted] effect
\* storing the preference.
ToggleMute ==
    /\ screen = "camera" /\ cam # 0 /\ error = Null
    /\ isMuted' = ~isMuted
    /\ localStorage' = Some(BoolToString(~isMuted'))
    /\ UNCHANGED <<appVars, camVars, procPc, gen, clicks, tplVars, aloneVars>>

\* ------------------------------------------------------------------- App
\* A template button of the LandingScreen: its own setSelectedTemplate(t.id).
SelectTemplate(t) ==
    /\ screen = "landing"
    /\ landingTemplate' = t
    /\ UNCHANGED <<appVars, camVars, procPc, gen, clicks, selectedTemplate,
                   muteVars, aloneVars>>

\* handleStart (LandingScreen's start button).
Start ==
    /\ Click
    /\ selectedTemplate' = landingTemplate
    /\ landingTemplate' = "classic"
    /\ UNCHANGED aloneVars
    /\ CallFree
    /\ screen = "landing"
    /\ screen' = "camera"
    /\ photos' = <<>>
    /\ finalStrip' = Null
    /\ MountCamera(streamRef, running)
    /\ UNCHANGED <<procPc, gen>>

\* Mutant of Retake: handleRetake without setPhotos([]) and setFinalStrip(null).
RetakeKeeps ==
    /\ Click
    /\ UNCHANGED <<tplVars, aloneVars>>
    /\ CallFree
    /\ screen = "result"
    /\ screen' = "camera"
    /\ MountCamera(streamRef, running)
    /\ UNCHANGED <<photos, finalStrip, procPc, gen>>

\* handleRetake (ResultScreen's retake button).
Retake ==
    /\ Click
    /\ UNCHANGED <<tplVars, aloneVars>>
    /\ CallFree
    /\ screen = "result"
    /\ screen' = "camera"
    /\ photos' = <<>>
    /\ finalStrip' = Null
    /\ MountCamera(streamRef, running)
    /\ UNCHANGED <<procPc, gen>>

\* onNewSession (ResultScreen's new-session button).
NewSession ==
    /\ Click
    /\ UNCHANGED <<sideVars, filterVars>>
    /\ screen = "result"
    /\ screen' = "landing"
    /\ UNCHANGED <<photos, finalStrip, camVars, procPc, gen>>

\* ------------------------------------------------------ the processing screen
\* Mutant of ProcContinue: handleStripGenerated without setFinalStrip.
ProcContinueNoStrip(g) ==
    IF g.phase = "resolved"
    THEN /\ screen' = "result"
         /\ procPc' = "idle"
         /\ gen' = GenIdle
         /\ UNCHANGED <<photos, finalStrip, camVars, muteVars>>
    ELSE IF g.phase = "rejected"
    THEN /\ screen' = "camera"
         /\ photos' = <<>>
         /\ finalStrip' = Null
         /\ procPc' = "idle"
         /\ gen' = GenIdle
         /\ MountCamera(streamRef, running)
    ELSE /\ procPc' = "gen"
         /\ gen' = g
         /\ UNCHANGED <<appVars, camVars, muteVars>>

\* The rest of processPhotos once generatePhotoboothStrip's promise has settled
\* as g says: onStripGenerated(strip) = handleStripGenerated, or the catch's
\* onError(error) = handleProcessingError. While it is pending, nothing.
\* What a settled composer still has pending (late image events, its 30 s timer)
\* touches only its own canvas and its settled promise: SpecGen follows that;
\* here the composer is dropped once processPhotos has taken its result.
ProcContinue(g) ==
    IF g.phase = "resolved"
    THEN /\ finalStrip' = Some([urls |-> g.urls, log |-> g.log])
         /\ screen' = "result"
         /\ procPc' = "idle"
         /\ gen' = GenIdle
         /\ UNCHANGED <<photos, camVars, muteVars>>
    ELSE IF g.phase = "rejected"
    THEN /\ screen' = "camera"
         /\ photos' = <<>>
         /\ finalStrip' = Null
         /\ procPc' = "idle"
         /\ gen' = GenIdle
         /\ MountCamera(streamRef, running)
    ELSE /\ procPc' = "gen"
         /\ gen' = g
         /\ UNCHANGED <<appVars, camVars, muteVars>>

\* A step of the composer that ProcessingScreen is awaiting.
GenStep(g) ==
    /\ procPc = "gen"
    /\ ProcContinue(g)

\* processPhotos after its 1 s delay: the list is checked and
\* generatePhotoboothStrip(photos) is called with no options.
ProcDelayDone ==
    /\ UNCHANGED clicks
    /\ UNCHANGED <<tplVars, aloneVars>>
    /\ procPc = "delay"
    /\ \E ctxOk \in BOOLEAN, throws \in SUBSET (1..Len(photos)), enc \in EncOutcomes :
          LET g == GenCall(FALSE, photos, DefaultOptions, ctxOk, throws, enc)
          IN  ProcContinue(g)

\* The outcomes of canvas.toDataURL that a step of the composer can meet: the
\* canvas is encoded only by the step that settles the last pending decode i.
EncChoices(g, i) ==
    IF g.phase = "running" /\ \A j \in 1..Len(g.decode) : j # i => g.decode[j] # "pending"
    THEN EncOutcomes
    ELSE {"ok"}

\* img.onload of photo i while ProcessingScreen awaits the composer.
ImgLoad(i) ==
    /\ UNCHANGED clicks
    /\ UNCHANGED <<tplVars, aloneVars>>
    /\ i \in 1..Len(gen.decode)
    /\ gen.decode[i] = "pending" /\ CanLoad(gen.urls[i])
    /\ \E enc \in EncChoices(gen, i) : GenStep(GenLoad(gen, i, enc))

\* img.onerror of photo i while ProcessingScreen awaits the composer.
ImgError(i) ==
    /\ UNCHANGED clicks
    /\ UNCHANGED <<tplVars, aloneVars>>
    /\ i \in 1..Len(gen.decode)
    /\ gen.decode[i] = "pending"
    /\ \E enc \in EncChoices(gen, i) : GenStep(GenError(gen, i, enc))

\* The composer's 30 s timer while ProcessingScreen awaits the composer.
GenTimerFire ==
    /\ UNCHANGED clicks
    /\ UNCHANGED <<tplVars, aloneVars>>
    /\ gen.timer
    /\ GenStep(GenTimeout(gen))

\* ------------------------------------------------------- the result screen
\* ResultScreen (src/unnamed/part_001) with a non-empty strip. Its clock counts
\* the distinct values Date.now() takes (milliseconds), not a duration.
\*   hasShare: 'share' in navigator; shareFn: navigator.share is truthy;
\*   canShareFn: typeof navigator.canShare is 'function';
\*   timers: the set-times of the pending 500 ms timers of handleDownload;
\*   downloads: the link.click() calls, by: 0 the button, f the share flow f;
\*   flows: the handleShare invocations.
ResIdle ==
    [mounted |-> FALSE, stripDataUrl |-> TRUE, hasShare |-> FALSE, shareFn |-> FALSE,
     canShareFn |-> FALSE, shareSupported |-> FALSE, isDownloading |-> FALSE,
     timers |-> <<>>, now |-> 0, downloads |-> <<>>, flows |-> <<>>]

\* `new-year-photobooth-${new Date().getTime()}.png`
Filename(time) == [prefix |-> "new-year-photobooth-", time |-> time, ext |-> ".png"]

\* One handleShare invocation: where it is, the steps whose navigator.canShare
\* (asked) and navigator.share (tried) it called, in call order, the downloads
\* it made, how it ended, and the step whose share rejected with AbortError
\* (0: none did).
NewFlow ==
    [pc |-> "fetch", asked |-> <<>>, tried |-> <<>>, dl |-> 0, outcome |-> "pending",
     aborted |-> 0]

ShareOutcomes == {"ok", "AbortError", "NotAllowedError"}
CanShareOutcomes == {"true", "false", "throws"}

\* handleDownload, called by the button (by = 0) or by share flow by.
HandleDownload(r, by) ==
    IF ~r.stripDataUrl THEN r
    ELSE [r EXCEPT !.isDownloading = TRUE,
                   !.downloads = Append(@, [name |-> Filename(r.now), by |-> by]),
                   !.timers = Append(@, r.now)]

\* The last resort of handleShare: navigator.share({text, url}), awaited.
StepThree(r, f) ==
    [r EXCEPT !.flows[f].tried = Append(@, 3),
              !.flows[f].pc = "share3"]

\* The text/url fallback: canShare(textShareData), then navigator.share of it.
\* can: what navigator.canShare does.
StepTwo(r, f, can) ==
    IF r.canShareFn
    THEN LET r1 == [r EXCEPT !.flows[f].asked = Append(@, 2)]
         IN  IF can = "true"
             THEN [r1 EXCEPT !.flows[f].tried = Append(@, 2),
                             !.flows[f].pc = "share2"]
             ELSE StepThree(r1, f)
    ELSE StepThree(r, f)

\* The file share after fetch and blob: fetchOk says whether they (and new
\* File) succeeded; can1, can2: what navigator.canShare does for the file
\* data and for the text data.
StepOne(r, f, fetchOk, can1, can2) ==
    IF fetchOk /\ r.canShareFn
    THEN LET r1 == [r EXCEPT !.flows[f].asked = Append(@, 1)]
         IN  IF can1 = "true"
             THEN [r1 EXCEPT !.flows[f].tried = Append(@, 1),
                             !.flows[f].pc = "share1"]
             ELSE StepTwo(r1, f, can2)
    ELSE StepTwo(r, f, can2)

\* Mutant of ShareSettled: one try around the three steps, so that any rejection
\* goes to the download fallback.
ShareSettledNoCascade(r, f, outcome, can2) ==
    IF outcome = "ok"
    THEN [r EXCEPT !.flows[f].pc = "done", !.flows[f].outcome = "shared"]
    ELSE HandleDownload([r EXCEPT !.flows[f].pc = "done",
                                  !.flows[f].outcome = outcome,
                                  !.flows[f].dl = @ + 1], f)

\* The navigator.share call flow f awaits settles: "ok" resolves it, anything
\* else is the name of the error it rejects with. A rejection of the first two
\* calls is caught by the catch around the canShare test; a rejection of the
\* last by the outer catch, which calls handleDownload.
ShareSettled(r, f, outcome, can2) ==
    LET step == r.flows[f].tried[Len(r.flows[f].tried)]
        r1 == IF outcome = "AbortError" /\ r.flows[f].aborted = 0
              THEN [r EXCEPT !.flows[f].aborted = step] ELSE r
    IN  IF outcome = "ok"
        THEN [r1 EXCEPT !.flows[f].pc = "done", !.flows[f].outcome = "shared"]
        ELSE IF step = 1 THEN StepTwo(r1, f, can2)
        ELSE IF step = 2 THEN StepThree(r1, f)
        ELSE HandleDownload([r1 EXCEPT !.flows[f].pc = "done",
                                       !.flows[f].outcome = outcome,
                                       !.flows[f].dl = @ + 1], f)

\* Mutant of HandleShare: the test of the share capability is left out.
HandleShareUnchecked(r) ==
    IF ~r.stripDataUrl THEN r
    ELSE [r EXCEPT !.flows = Append(@, NewFlow)]

\* handleShare up to its first await.
HandleShare(r) ==
    IF ~r.stripDataUrl THEN r
    ELSE IF ~r.shareSupported \/ ~r.shareFn
    THEN HandleDownload(
             [r EXCEPT !.flows = Append(@, [NewFlow EXCEPT !.pc = "done",
                                                          !.outcome = "unsupported",
                                                          !.dl = 1])],
             Len(r.flows) + 1)
    ELSE [r EXCEPT !.flows = Append(@, NewFlow)]

\* --------------------------------------------------- JavaScript numbers
\* A natural number of any size is the sequence of its digits to the base
\* Base, the lowest first, without a leading zero (0 is <<>>). The product of
\* two digits is below 2^31.
DigitBits == 15
Base == 2^DigitBits

Digit(a, i) == IF i \in 1..Len(a) THEN a[i] ELSE 0

Trim(a) ==
    IF a = <<>> \/ a[Len(a)] # 0 THEN a
    ELSE LET nz == {i \in 1..Len(a) : a[i] # 0}
         IN  IF nz = {} THEN <<>>
             ELSE SubSeq(a, 1, CHOOSE i \in nz : \A j \in nz : j <= i)

\* The digits of an integer 0 <= n < 2^31.
Digits(n) == Trim(<<n % Base, (n \div Base) % Base, n \div (Base * Base)>>)

\* Whether the sum of the digits below digit i carries into digit i.
Carry(a, b, i) ==
    \E j \in 1..(i - 1) :
        /\ Digit(a, j) + Digit(b, j) >= Base
        /\ \A k \in (j + 1)..(i - 1) : Digit(a, k) + Digit(b, k) = Base - 1

BigAdd(a, b) ==
    IF a = <<>> THEN b
    ELSE IF b = <<>> THEN a
    ELSE Trim([i \in 1..((IF Len(a) > Len(b) THEN Len(a) ELSE Len(b)) + 1) |->
                 (Digit(a, i) + Digit(b, i) + (IF Carry(a, b, i) THEN 1 ELSE 0)) % Base])

\* Whether the difference of the digits below digit i borrows from digit i.
Borrow(a, b, i) ==
    \E j \in 1..(i - 1) :
        /\ Digit(a, j) < Digit(b, j)
        /\ \A k \in (j + 1)..(i - 1) : Digit(a, k) = Digit(b, k)

\* a - b for a >= b.
BigSub(a, b) ==
    IF a = <<>> \/ b = <<>> THEN a
    ELSE Trim([i \in 1..Len(a) |->
                 (Base + Digit(a, i) - Digit(b, i) - (IF Borrow(a, b, i) THEN 1 ELSE 0))
                     % Base])

BigLess(a, b) ==
    IF Len(a) # Len(b) THEN Len(a) < Len(b)
    ELSE \E i \in 1..Len(a) : a[i] < b[i] /\ \A k \in (i + 1)..Len(a) : a[k] = b[k]

\* a * k for 0 <= k <= Base: the low digits of the products, and their high
\* digits one place up.
MulSmall(a, k) ==
    IF a = <<>> \/ k = 0 THEN <<>>
    ELSE BigAdd(Trim([i \in 1..Len(a) |-> (a[i] * k) % Base]),
                Trim([i \in 1..(Len(a) + 1) |->
                         IF i = 1 THEN 0 ELSE (a[i - 1] * k) \div Base]))

\* a * 2^s and the integer part of a / 2^s.
ShiftLeft(a, s) ==
    IF a = <<>> \/ s = 0 THEN a
    ELSE LET n == s \div DigitBits
             t == s % DigitBits
         IN  Trim([i \in 1..(Len(a) + n + 1) |->
                     ((Digit(a, i - n) * (2^t)) % Base)
                         + (Digit(a, i - n - 1) \div (2^(DigitBits - t)))])

ShiftRight(a, s) ==
    IF a = <<>> \/ s = 0 THEN a
    ELSE LET n == s \div DigitBits
             t == s % DigitBits
         IN  Trim([i \in 1..(Len(a) - n) |->
                     (Digit(a, i + n) \div (2^t))
                         + ((Digit(a, i + n + 1) % (2^t)) * (2^(DigitBits - t)))])

\* The number of binary digits of a, its binary digit i (the lowest is digit
\* 0), and the number of zeros below its lowest binary digit 1.
BitLen(a) ==
    IF a = <<>> THEN 0
    ELSE (DigitBits * (Len(a) - 1))
            + (CHOOSE k \in 1..DigitBits : 2^(k - 1) <= a[Len(a)] /\ a[Len(a)] < 2^k)

BitAt(a, i) == (Digit(a, (i \div DigitBits) + 1) \div (2^(i % DigitBits))) % 2

LowZeros(a) ==
    LET i == CHOOSE i \in 1..Len(a) : a[i] # 0 /\ \A j \in 1..(i - 1) : a[j] = 0
    IN  (DigitBits * (i - 1))
            + (CHOOSE k \in 0..(DigitBits - 1) :
                  a[i] % (2^k) = 0 /\ a[i] % (2^(k + 1)) # 0)

\* a * b for a of 4 digits at most, as the mantissa of a double is.
BigMul(a, b) ==
    IF a = <<>> \/ b = <<>> THEN <<>>
    ELSE BigAdd(BigAdd(MulSmall(b, Digit(a, 1)),
                       ShiftLeft(MulSmall(b, Digit(a, 2)), DigitBits)),
                BigAdd(ShiftLeft(MulSmall(b, Digit(a, 3)), 2 * DigitBits),
                       ShiftLeft(MulSmall(b, Digit(a, 4)), 3 * DigitBits)))

\* Long division by a divisor v whose highest digit is Base / 2 or more. The
\* digit of the quotient of u < v * Base by v is at most two below the
\* quotient of the two highest digits of u by the highest digit of v.
QuotDigit(u, v) ==
    LET top == (Digit(u, Len(v) + 1) * Base + Digit(u, Len(v))) \div v[Len(v)]
        qhat == IF top < Base - 1 THEN top ELSE Base - 1
    IN  CHOOSE d \in {qhat - 2, qhat - 1, qhat} :
            /\ d >= 0
            /\ ~BigLess(u, MulSmall(v, d))
            /\ BigLess(u, MulSmall(v, d + 1))

\* The digits of a from digit i down; q and r are the quotient and the
\* remainder of the digits above digit i.
RECURSIVE DivFrom(_, _, _, _, _)
DivFrom(a, v, i, q, r) ==
    IF i = 0 THEN [q |-> Trim(q), r |-> r]
    ELSE LET u == Trim(<<a[i]>> \o r)
             d == QuotDigit(u, v)
         IN  IF d = 0 THEN DivFrom(a, v, i - 1, <<0>> \o q, u)
             ELSE DivFrom(a, v, i - 1, <<d>> \o q, BigSub(u, MulSmall(v, d)))

\* The quotient of a by b, and the remainder times 2^t: both are shifted by t
\* so that the highest digit of the divisor is Base / 2 or more. The highest
\* Len(v) - 1 digits of a are below v: the quotient starts under them.
BigDivMod(a, b) ==
    LET t == (DigitBits * Len(b)) - BitLen(b)
        u == ShiftLeft(a, t)
        v == ShiftLeft(b, t)
    IN  IF Len(u) < Len(v) THEN [q |-> <<>>, r |-> u]
        ELSE DivFrom(u, v, Len(u) - Len(v) + 1, <<>>,
                     Trim(SubSeq(u, Len(u) - Len(v) + 2, Len(u))))

\* A number with a finite binary expansion: (-1)^neg * m * 2^e, m odd or zero.
\* Every value of a JavaScript number met here is one (no NaN, no infinity:
\* no divisor is 0 and nothing overflows).
Zero == [neg |-> FALSE, m |-> <<>>, e |-> 0]

Norm(neg, m, e) ==
    IF Trim(m) = <<>> THEN Zero
    ELSE [neg |-> neg, m |-> ShiftRight(m, LowZeros(m)), e |-> e + LowZeros(m)]

\* The number of an integer.
Num(n) == IF n < 0 THEN Norm(TRUE, Digits(0 - n), 0) ELSE Norm(FALSE, Digits(n), 0)

\* The integer M with x = M * 2^e, for e <= x.e.
Mant(x, e) == ShiftLeft(x.m, x.e - e)

\* Exact sum, difference, product and order.
XAdd(x, y) ==
    LET e == IF x.e < y.e THEN x.e ELSE y.e
        a == Mant(x, e)
        b == Mant(y, e)
    IN  IF x.neg = y.neg THEN Norm(x.neg, BigAdd(a, b), e)
        ELSE IF BigLess(a, b) THEN Norm(y.neg, BigSub(b, a), e)
        ELSE Norm(x.neg, BigSub(a, b), e)

XNeg(x) == IF x.m = <<>> THEN x ELSE [x EXCEPT !.neg = ~@]

XSub(x, y) == XAdd(x, XNeg(y))

XMul(x, y) == Norm(x.neg # y.neg, BigMul(x.m, y.m), x.e + y.e)

XLess(x, y) == XSub(x, y).neg

XLeq(x, y) == ~XLess(y, x)

\* Rounding to the nearest double: 53 significant binary digits, ties to the
\* even one. d digits are dropped; the highest of them and whether a 1 is
\* below it decide the direction.
Round(x) ==
    IF BitLen(x.m) <= 53 THEN x
    ELSE LET d == BitLen(x.m) - 53
             q == ShiftRight(x.m, d)
             below == ShiftLeft(ShiftRight(x.m, d - 1), d - 1) # x.m
             up == BitAt(x.m, d - 1) = 1 /\ (below \/ BitAt(q, 0) = 1)
         IN  Norm(x.neg, IF up THEN BigAdd(q, <<1>>) ELSE q, x.e + d)

\* The operators +, -, * and / of JavaScript numbers.
DAdd(x, y) == Round(XAdd(x, y))

DSub(x, y) == Round(XSub(x, y))

DMul(x, y) == Round(XMul(x, y))

\* The quotient of the mantissas is taken to 55 binary digits or more and a
\* last digit is added that says whether a remainder is left, so that Round
\* rounds the exact quotient.
DDiv(x, y) ==
    IF x.m = <<>> THEN Zero
    ELSE LET s == IF 55 + BitLen(y.m) - BitLen(x.m) > 0
                  THEN 55 + BitLen(y.m) - BitLen(x.m) ELSE 0
             qr == BigDivMod(ShiftLeft(x.m, s), y.m)
         IN  IF qr.r = <<>>
             THEN Round(Norm(x.neg # y.neg, qr.q, x.e - s - y.e))
             ELSE Round(Norm(x.neg # y.neg, BigAdd(MulSmall(qr.q, 2), <<1>>),
                             x.e - s - y.e - 1))

\* --------------------------------------------------- the layout functions
\* canvas.width and canvas.height of the strip, and the constants of
\* getTemplatePlacements.
STRIP_WIDTH == 1080
STRIP_HEIGHT == 1920
HEADER_HEIGHT == 200
FOOTER_HEIGHT == 150
PADDING == 40

\* A placement, by its rectangle (rotation, border width and radius are the
\* same constants for every placement of a template).
Rect(x, y, w, h) == [w |-> w, h |-> h, x |-> x, y |-> y]

\* Array.from({ length: count }, (_, i) => ...): element i + 1 here is element i
\* there.
getClassicPlacements(padding, headerHeight, width, height, count) ==
    LET spacing == Num(20)
        photoHeight == DDiv(DSub(height, DMul(spacing, Num(count - 1))), Num(count))
    IN  [i \in 1..count |->
            Rect(padding,
                 DAdd(headerHeight, DMul(Num(i - 1), DAdd(photoHeight, spacing))),
                 width, photoHeight)]

\* Mutant of getGridPlacements: the positions array in column order.
getGridPlacementsByColumn(padding, headerHeight, width, height, count) ==
    LET gap == Num(20)
        photoWidth == DDiv(DSub(width, gap), Num(2))
        photoHeight == DDiv(DSub(height, gap), Num(2))
    IN  [i \in 1..Min(count, 4) |->
            Rect(DAdd(padding, DMul(Num(GridPositions[i].row), DAdd(photoWidth, gap))),
                 DAdd(headerHeight, DMul(Num(GridPositions[i].col), DAdd(photoHeight, gap))),
                 photoWidth, photoHeight)]

\* positions.slice(0, count).map(...), for count >= 0.
getGridPlacements(padding, headerHeight, width, height, count) ==
    LET gap == Num(20)
        photoWidth == DDiv(DSub(width, gap), Num(2))
        photoHeight == DDiv(DSub(height, gap), Num(2))
    IN  [i \in 1..Min(count, 4) |->
            Rect(DAdd(padding, DMul(Num(GridPositions[i].col), DAdd(photoWidth, gap))),
                 DAdd(headerHeight, DMul(Num(GridPositions[i].row), DAdd(photoHeight, gap))),
                 photoWidth, photoHeight)]

\* getTemplatePlacements for the classic and the grid template, with the
\* rectangles of the placements.
getTemplatePlacements(template, width, height, photoCount) ==
    LET availableHeight == DSub(DSub(height, Num(HEADER_HEIGHT)), Num(FOOTER_HEIGHT))
        availableWidth == DSub(width, DMul(Num(PADDING), Num(2)))
    IN  IF template = "grid"
        THEN getGridPlacements(Num(PADDING), Num(HEADER_HEIGHT), availableWidth,
                               availableHeight, photoCount)
        ELSE getClassicPlacements(Num(PADDING), Num(HEADER_HEIGHT), availableWidth,
                                  availableHeight, photoCount)

\* drawCroppedImage: the arguments of its ctx.drawImage call. img.width and
\* img.height are integers.
drawCroppedImage(img, x, y, width, height) ==
    LET imgAspect == DDiv(Num(img.width), Num(img.height))
        targetAspect == DDiv(width, height)
        wide == XLess(targetAspect, imgAspect)
        sourceWidth == IF wide THEN DMul(Num(img.height), targetAspect) ELSE Num(img.width)
        sourceHeight == IF wide THEN Num(img.height) ELSE DDiv(Num(img.width), targetAspect)
        sourceX == IF wide THEN DDiv(DSub(Num(img.width), sourceWidth), Num(2)) ELSE Zero
        sourceY == IF wide THEN Zero ELSE DDiv(DSub(Num(img.height), sourceHeight), Num(2))
    IN  [sw |-> sourceWidth, sh |-> sourceHeight, sx |-> sourceX, sy |-> sourceY,
         dx |-> x, dy |-> y, dw |-> width, dh |-> height]

CalcIdle == [fn |-> "none"]

\* ------------------------------------------------------------ specification
Init ==
    /\ screen = "landing"
    /\ photos = <<>>
    /\ finalStrip = Null
    /\ mounts = 0
    /\ cam = 0
    /\ camPhotos = <<>>
    /\ isCapturing = FALSE
    /\ error = Null
    /\ facingMode = "user"
    /\ isSwitching = FALSE
    /\ countdown = [i \in Insts |-> Null]
    /\ videoSrc = Null
    /\ videoReady = FALSE
    /\ streamRef = [i \in Insts |-> Null]
    /\ running = {}
    /\ calls = [i \in Insts |-> [k \in Slots |-> NoCall]]
    /\ interval = [i \in Insts |-> FALSE]
    /\ capTimer = [i \in Insts |-> FALSE]
    /\ cdPhotos = <<>>
    /\ handoff = [i \in Insts |-> Null]
    /\ delivered = [i \in Insts |-> 0]
    /\ procPc = "idle"
    /\ gen = GenIdle
    /\ clicks = 0
    /\ selectedTemplate = "classic"
    /\ landingTemplate = "classic"
    /\ isMuted = FALSE
    /\ localStorage = Null
    /\ res = ResIdle
    /\ currentFilter = "none"
    /\ cdFilter = "none"
    /\ calc = CalcIdle

Next ==
    \/ Start
    \/ Retake
    \/ NewSession
    \/ Cancel
    \/ SwitchCamera
    \/ StartCountdown
    \/ \E i \in 1..mounts : Tick(i)
    \/ \E i \in 1..mounts : CaptureTimer(i)
    \/ \E i \in 1..mounts : HandoffFire(i)
    \/ \E i \in 1..mounts, k \in Slots : DelayDone(i, k)
    \/ \E i \in 1..mounts, k \in Slots : GumSucceed(i, k)
    \/ \E i \in 1..mounts, k \in Slots : GumFail(i, k)
    \/ \E i \in 1..mounts, k \in Slots, name \in ErrorNames : GumFailLast(i, k, name)
    \/ LoadedMetadata
    \/ \E i \in 1..mounts, k \in Slots : MetaTimeout(i, k)
    \/ ProcDelayDone
    \/ \E i \in 1..TOTAL_PHOTOS : ImgLoad(i)
    \/ \E i \in 1..TOTAL_PHOTOS : ImgError(i)
    \/ GenTimerFire

Spec == Init /\ [][Next]_vars

\* Under SpecFair the timers a processing run waits for do fire: the 1 s delay of
\* processPhotos and the composer's 30 s timer. Image events get no fairness: a
\* decode may never complete.
SpecFair == Spec /\ WF_vars(ProcDelayDone) /\ WF_vars(GenTimerFire)

\* Spec follows the sessions of a user who leaves the landing screen's template
\* and the mute button alone; SpecSession adds the template buttons and the
\* mute button.
NextSession ==
    \/ Next
    \/ \E t \in Templates : SelectTemplate(t)
    \/ ToggleMute

SpecSession == Init /\ [][NextSession]_vars

\* SpecFilter adds the filter button to the sessions of Spec.
NextFilterStep ==
    \/ Next
    \/ CycleFilter

SpecFilter == Init /\ [][NextFilterStep]_vars

\* A getUserMedia request of call k of instance i settles.
GumSettle(i, k) ==
    \/ GumSucceed(i, k)
    \/ GumFail(i, k)
    \/ \E name \in ErrorNames : GumFailLast(i, k, name)

\* Under SpecSwitch the timers of the camera screen fire (the 100 ms delay and
\* the 1 s fallback of startCamera, the countdown interval, the capture timer,
\* the hand-off timer) and every getUserMedia request settles. The video's
\* loadedmetadata event gets no fairness: it may never come.
SpecSwitch ==
    /\ SpecFilter
    /\ \A i \in Insts :
          /\ WF_vars(Tick(i))
          /\ WF_vars(CaptureTimer(i))
          /\ WF_vars(HandoffFire(i))
          /\ \A k \in Slots :
                /\ WF_vars(DelayDone(i, k))
                /\ WF_vars(GumSettle(i, k))
                /\ WF_vars(MetaTimeout(i, k))

\* ------------------------------------- the composer on its own (SpecGen)
\* generatePhotoboothStrip called once with any photo list up to MaxGenPhotos
\* (or null) and any options; the app around it stays on the landing screen.
UrlKinds == {"empty", "blank", "jpeg"}

GenPhotoLists ==
    UNION {{[j \in 1..n |-> Url(0, j, kinds[j], "none")] : kinds \in [1..n -> UrlKinds]} :
           n \in 0..MaxGenPhotos}

AllOptions ==
    {GenOptions(t, c, v) : t \in Templates, c \in BOOLEAN, v \in BOOLEAN}

appIdle == <<appVars, camVars, procPc, clicks, sideVars>>

GenInvoke ==
    /\ gen.phase = "idle"
    /\ \E isNull \in BOOLEAN, urls \in GenPhotoLists, options \in AllOptions,
          ctxOk \in BOOLEAN, enc \in EncOutcomes :
          /\ isNull => urls = <<>>
          /\ \E throws \in SUBSET (1..Len(urls)) :
                gen' = GenCall(isNull, urls, options, ctxOk, throws, enc)
    /\ UNCHANGED appIdle

GenImgLoad(i) ==
    /\ i \in 1..Len(gen.decode)
    /\ gen.decode[i] = "pending" /\ CanLoad(gen.urls[i])
    /\ \E enc \in EncChoices(gen, i) : gen' = GenLoad(gen, i, enc)
    /\ UNCHANGED appIdle

GenImgError(i) ==
    /\ i \in 1..Len(gen.decode)
    /\ gen.decode[i] = "pending"
    /\ \E enc \in EncChoices(gen, i) : gen' = GenError(gen, i, enc)
    /\ UNCHANGED appIdle

GenTimer ==
    /\ gen.timer
    /\ gen' = GenTimeout(gen)
    /\ UNCHANGED appIdle

NextGen ==
    \/ GenInvoke
    \/ \E i \in 1..MaxGenPhotos : GenImgLoad(i)
    \/ \E i \in 1..MaxGenPhotos : GenImgError(i)
    \/ GenTimer

SpecGen == Init /\ [][NextGen]_vars

\* --------------------------- the composer's placements on their own (SpecPlace)
\* generatePhotoboothStrip called once with 1..MaxPlacePhotos captured frames
\* and any template, the effects off.
PlaceInvoke ==
    /\ gen.phase = "idle"
    /\ \E template \in Templates, n \in 1..MaxPlacePhotos, enc \in EncOutcomes :
          gen' = GenCall(FALSE, [j \in 1..n |-> Url(0, j, "jpeg", "none")],
                         GenOptions(template, FALSE, FALSE), TRUE, {}, enc)
    /\ UNCHANGED appIdle

NextPlace ==
    \/ PlaceInvoke
    \/ \E i \in 1..MaxPlacePhotos : GenImgLoad(i)
    \/ \E i \in 1..MaxPlacePhotos : GenImgError(i)
    \/ GenTimer

SpecPlace == Init /\ [][NextPlace]_vars

\* ------------------------------ the layout functions on their own (SpecLayout)
\* One call of getTemplatePlacements as generatePhotoboothStrip makes it, or of
\* drawCroppedImage for an image and a target slot of any sizes.
layoutIdle == <<appVars, camVars, procPc, gen, clicks, tplVars, muteVars, res>>

PlacementsCall ==
    /\ calc.fn = "none"
    /\ \E template \in {"classic", "grid"}, count \in 1..MaxLayoutPhotos :
          calc' = [fn |-> template, count |-> count,
                   out |-> getTemplatePlacements(template, Num(STRIP_WIDTH),
                                                 Num(STRIP_HEIGHT), count)]
    /\ UNCHANGED layoutIdle

CropCall ==
    /\ calc.fn = "none"
    /\ \E imgW \in 1..MaxSide, imgH \in 1..MaxSide, w \in 1..MaxSide, h \in 1..MaxSide,
          x \in 0..1, y \in 0..1 :
          calc' = [fn |-> "crop", img |-> [width |-> imgW, height |-> imgH],
                   x |-> x, y |-> y, w |-> w, h |-> h,
                   out |-> drawCroppedImage([width |-> imgW, height |-> imgH],
                                            Num(x), Num(y), Num(w), Num(h))]
    /\ UNCHANGED layoutIdle

NextLayout ==
    \/ PlacementsCall
    \/ CropCall

SpecLayout == Init /\ [][NextLayout]_vars

\* ------------------------------------- the result screen on its own (SpecShare)
\* One ResultScreen showing a strip, on any platform; the rest of the app is
\* not followed.
shareIdle == <<appVars, camVars, procPc, gen, clicks, tplVars, muteVars, calc>>

\* ResultScreen mounts; its effect sets shareSupported from 'share' in navigator.
ResultMount ==
    /\ ~res.mounted
    /\ \E hasShare \in BOOLEAN, shareFn \in BOOLEAN, canShareFn \in BOOLEAN :
          /\ shareFn => hasShare
          /\ res' = [ResIdle EXCEPT !.mounted = TRUE, !.hasShare = hasShare,
                                    !.shareFn = shareFn, !.canShareFn = canShareFn,
                                    !.shareSupported = hasShare]
    /\ UNCHANGED shareIdle

\* Click on the Download button (disabled while isDownloading).
DownloadClick ==
    /\ res.mounted /\ ~res.isDownloading
    /\ res' = HandleDownload(res, 0)
    /\ UNCHANGED shareIdle

\* Click on the Share button (rendered when shareSupported).
ShareClick ==
    /\ res.mounted /\ res.shareSupported
    /\ Len(res.flows) < MaxShares
    /\ res' = HandleShare(res)
    /\ UNCHANGED shareIdle

\* fetch(stripDataUrl), response.blob() and new File of flow f are over.
FetchDone(f) ==
    /\ f \in 1..Len(res.flows)
    /\ res.flows[f].pc = "fetch"
    /\ \E fetchOk \in BOOLEAN, can1 \in CanShareOutcomes, can2 \in CanShareOutcomes :
          res' = StepOne(res, f, fetchOk, can1, can2)
    /\ UNCHANGED shareIdle

\* The navigator.share call that flow f awaits resolves or rejects.
ShareSettle(f) ==
    /\ f \in 1..Len(res.flows)
    /\ res.flows[f].pc \in {"share1", "share2", "share3"}
    /\ \E outcome \in ShareOutcomes, can2 \in CanShareOutcomes :
          res' = ShareSettled(res, f, outcome, can2)
    /\ UNCHANGED shareIdle

\* The oldest 500 ms timer of handleDownload fires, at a later millisecond than
\* the one it was set in: setIsDownloading(false).
DownloadTimer ==
    /\ Len(res.timers) > 0
    /\ Head(res.timers) < res.now
    /\ res' = [res EXCEPT !.isDownloading = FALSE, !.timers = Tail(@)]
    /\ UNCHANGED shareIdle

\* Date.now() takes its next value.
ClockTick ==
    /\ res.mounted
    /\ res.now < MaxTime
    /\ res' = [res EXCEPT !.now = @ + 1]
    /\ UNCHANGED shareIdle

NextShare ==
    \/ ResultMount
    \/ DownloadClick
    \/ ShareClick
    \/ \E f \in 1..MaxShares : FetchDone(f)
    \/ \E f \in 1..MaxShares : ShareSettle(f)
    \/ DownloadTimer
    \/ ClockTick

SpecShare == Init /\ [][NextShare]_vars

\* ------------------------------------------------------------ sanity
TypeOK ==
    /\ screen \in {"landing", "camera", "processing", "result"}
    /\ mounts \in 0..MaxClicks /\ cam \in 0..mounts
    /\ clicks \in 0..MaxClicks
    /\ NumCalls <= MaxCalls
    /\ (cam # 0) = (screen = "camera")
    /\ \A i \in 1..mounts : calls[i][1].pc # "none"
    /\ procPc \in {"idle", "delay", "gen"}
    /\ (procPc # "idle") = (screen = "processing")
    /\ (procPc = "gen") => gen.phase = "running"
    /\ HandoffPending => screen \in {"camera", "landing"}
    /\ Cardinality({i \in Insts : handoff[i] # Null}) <= 1

\* ------------------------------------------------------------------ claims

AllowedTransitions ==
    {<<"landing", "camera">>, <<"camera", "processing">>, <<"processing", "result">>,
     <<"processing", "camera">>, <<"result", "camera">>, <<"result", "landing">>,
     <<"camera", "landing">>}

\* C1: every change of App's screen is one of landing->camera, camera->processing,
\* processing->result, processing->camera, result->camera, result->landing,
\* camera->landing.
C1_OnlyListedTransitions ==
    [][screen' # screen => <<screen, screen'>> \in AllowedTransitions]_vars

\* C2: in no state is the screen other than camera while a stream that
\* startCamera obtained still has running tracks.
C2_NoStreamOffCamera == screen # "camera" => running = {}

StreamsOf(i) == {s \in running : s[1] = i}

\* C3: at every moment at most one stream acquired by a camera screen is running.
C3_OneRunningStream == \A i \in Insts : Cardinality(StreamsOf(i)) <= 1

\* C4: while the error message of startCamera is set, streamRef holds no stream
\* (the message is set only when all three requests failed).
C4_ErrorMeansNoStream == (cam # 0 /\ error # Null) => streamRef[cam] = Null

\* The list an instance hands over: TOTAL_PHOTOS photos of that instance, the
\* j-th capture at position j.
InCaptureOrder(list, i) ==
    /\ Len(list) = TOTAL_PHOTOS
    /\ \A j \in 1..Len(list) : list[j].inst = i /\ list[j].n = j

\* C5: the camera screen's photo list never holds more than TOTAL_PHOTOS photos;
\* once it holds that many no countdown runs or starts; an instance that
\* completed has its hand-off pending or has called onPhotosCaptured, at most
\* once, and the list it hands over is its TOTAL_PHOTOS photos in capture order.
C5_PhotoCount ==
    /\ Len(camPhotos) <= TOTAL_PHOTOS
    /\ (cam # 0 /\ Len(camPhotos) >= TOTAL_PHOTOS) =>
          /\ ~isCapturing /\ ~interval[cam] /\ ~capTimer[cam]
          /\ handoff[cam] # Null
    /\ \A i \in Insts :
          /\ delivered[i] <= 1
          /\ handoff[i] # Null =>
                delivered[i] = 0 /\ InCaptureOrder(handoff[i][1], i)
    /\ screen = "processing" =>
          \E i \in Insts : delivered[i] = 1 /\ InCaptureOrder(photos, i)

C5_Witness == screen = "processing" /\ \E i \in Insts : delivered[i] = 1

CountdownSteps ==
    {<<Null, Some(3)>>, <<Some(3), Some(2)>>, <<Some(2), Some(1)>>,
     <<Some(1), Some(0)>>, <<Some(0), Null>>}

\* C6: the countdown value goes null, 3, 2, 1, 0, null, one step per start, tick
\* or capture; the interval runs only at 3, 2, 1 and the capture timer only at
\* 0; isCapturing is true exactly while a countdown of the mounted screen is
\* under way; a photo is appended only by the capture timer of a countdown that
\* reached 0, one photo per countdown, and after it isCapturing is false and
\* the countdown value is null.
C6_Countdown ==
    [][/\ \A i \in Insts :
             /\ countdown'[i] # countdown[i] =>
                   <<countdown[i], countdown'[i]>> \in CountdownSteps
             /\ interval[i] => countdown[i] \in {Some(3), Some(2), Some(1)}
             /\ capTimer[i] => countdown[i] = Some(0) /\ ~interval[i]
       /\ cam # 0 => (isCapturing <=> (interval[cam] \/ capTimer[cam]))
       /\ (cam' = cam /\ camPhotos' # camPhotos) =>
             /\ Len(camPhotos') = Len(camPhotos) + 1
             /\ capTimer[cam] /\ ~capTimer'[cam] /\ ~interval'[cam]
             /\ countdown[cam] = Some(0) /\ countdown'[cam] = Null
             /\ ~isCapturing']_vars

\* C7: called with a null or empty photo list, generatePhotoboothStrip rejects
\* with 'No photos provided', creates no canvas and starts no decode.
C7_NoPhotosRejected ==
    (gen.phase # "idle" /\ (gen.isNull \/ Len(gen.urls) = 0)) =>
        /\ gen.phase = "rejected"
        /\ gen.result = "No photos provided"
        /\ gen.settles = 1
        /\ ~gen.canvas
        /\ gen.decode = <<>>
        /\ gen.log = <<>>
        /\ ~gen.timer

C7_Witness == gen.phase = "rejected" /\ ~gen.isNull /\ Len(gen.urls) = 0

Drawn(g) == {g.log[j].i : j \in {x \in 1..Len(g.log) : g.log[x].op = "photo"}}

\* C8: for a non-empty photo list, exactly the photos that loaded are drawn (a
\* failed photo never is); once every decode has settled before the timer, the
\* promise has resolved with an image unless the encode failed; and the promise
\* is rejected only by the timeout or the encode, never by a photo's failure.
C8_PartialSuccess ==
    (gen.phase # "idle" /\ Len(gen.decode) > 0) =>
        /\ \A i \in 1..Len(gen.decode) :
              (i \in Drawn(gen)) <=> (gen.decode[i] = "loaded")
        /\ (AllSettled(gen) /\ gen.timer) =>
              \/ gen.phase = "resolved" /\ gen.result = "image"
              \/ gen.enc \in {"throws", "empty"}
        /\ gen.phase = "rejected" =>
              gen.result \in {"Photo processing timeout",
                              "Failed to generate photobooth strip image"}

C8_Witness ==
    /\ gen.phase = "resolved" /\ gen.result = "image"
    /\ \E i \in 1..Len(gen.decode) : gen.decode[i] = "failed"
    /\ \E i \in 1..Len(gen.decode) : gen.decode[i] = "loaded"

HasOp(g, name) == \E j \in 1..Len(g.log) : g.log[j].op = name

\* C9: when the 30 s timer has fired with a decode still pending the promise is
\* rejected with 'Photo processing timeout', and a promise rejected so never
\* encodes or resolves; when toDataURL throws or returns nothing the promise is
\* rejected with 'Failed to generate photobooth strip image'; resolve or reject
\* of the returned promise is called at most once, and exactly once by the time
\* the timer has fired.
C9_TimeoutAndEncode ==
    /\ (gen.phase # "idle" /\ ~gen.timer
          /\ \E i \in 1..Len(gen.decode) : gen.decode[i] = "pending") =>
          gen.phase = "rejected" /\ gen.result = "Photo processing timeout"
    /\ gen.result = "Photo processing timeout" =>
          gen.phase = "rejected" /\ ~HasOp(gen, "footer") /\ ~HasOp(gen, "encode")
    /\ gen.enc \in {"throws", "empty"} =>
          /\ gen.phase = "rejected"
          /\ gen.result = "Failed to generate photobooth strip image"
    /\ gen.settles <= 1
    /\ (gen.phase \in {"resolved", "rejected"}) <=> (gen.settles = 1)
    /\ (gen.phase # "idle" /\ ~gen.timer) => gen.settles = 1

C9_Witness ==
    /\ gen.result = "Photo processing timeout"
    /\ \E i \in 1..Len(gen.decode) : gen.decode[i] = "pending"

\* C10: whenever the screen is processing it later is result or camera, the
\* timers being scheduled fairly, also when a photo decode never completes.
C10_ProcessingEnds ==
    (screen = "processing") ~> (screen \in {"result", "camera"})

C10_Witness == screen = "processing" /\ procPc = "gen" /\ ~AllSettled(gen)

\* C11: a handleShare call on a platform without the share capability
\* (shareSupported false or navigator.share absent) makes exactly one download
\* and no call of navigator.share or navigator.canShare, then or later.
C11_NoShareDownloads ==
    [][(~res.shareSupported \/ ~res.shareFn) =>
          /\ \A f \in 1..Len(res.flows) :
                res.flows[f].tried = <<>> /\ res.flows[f].asked = <<>>
          /\ Len(res'.flows) = Len(res.flows) + 1 =>
                /\ Len(res'.downloads) = Len(res.downloads) + 1
                /\ res'.downloads[Len(res'.downloads)].by = Len(res'.flows)
                /\ res'.flows[Len(res'.flows)] =
                      [NewFlow EXCEPT !.pc = "done", !.outcome = "unsupported",
                                      !.dl = 1]]_vars

C11_Witness ==
    /\ res.mounted /\ res.shareSupported /\ ~res.shareFn
    /\ \E f \in 1..Len(res.flows) : res.flows[f].outcome = "unsupported"
    /\ \E d \in 1..Len(res.downloads) : res.downloads[d].by # 0

Last(seq) == seq[Len(seq)]

\* C12: a share flow one of whose navigator.share calls rejected with AbortError
\* makes no download and calls navigator.share no more after that step.
C12_CancelIsSilent ==
    \A f \in 1..Len(res.flows) :
        res.flows[f].aborted # 0 =>
            /\ res.flows[f].dl = 0
            /\ Last(res.flows[f].tried) = res.flows[f].aborted

Increasing(seq) == \A j, k \in 1..Len(seq) : j < k => seq[j] < seq[k]

DownloadsBy(f) == {d \in 1..Len(res.downloads) : res.downloads[d].by = f}

\* C13: each handleShare flow calls navigator.share in the order file (1),
\* title/text/url (2), text/url (3), each step at most once; a share that
\* succeeded ended the flow with no download; a flow ends unshared only after
\* the last step was attempted and rejected (a rejection of step one or two is
\* followed by a later step), and then with exactly one download.
C13_ShareOrder ==
    \A f \in 1..Len(res.flows) :
        LET fl == res.flows[f]
        IN  fl.outcome # "unsupported" =>
            /\ Increasing(fl.tried) /\ \A j \in 1..Len(fl.tried) : fl.tried[j] \in 1..3
            /\ Increasing(fl.asked) /\ \A j \in 1..Len(fl.asked) : fl.asked[j] \in 1..2
            /\ fl.pc = "share1" => Last(fl.tried) = 1
            /\ fl.pc = "share2" => Last(fl.tried) = 2
            /\ fl.pc = "share3" => Last(fl.tried) = 3
            /\ (fl.outcome = "pending") <=> (fl.pc # "done")
            /\ fl.outcome = "shared" => Len(fl.tried) > 0 /\ fl.dl = 0
            /\ (fl.pc = "done" /\ fl.outcome # "shared") =>
                  Last(fl.tried) = 3 /\ fl.dl = 1
            /\ fl.pc # "done" => fl.dl = 0
            /\ Cardinality(DownloadsBy(f)) = fl.dl

C13_Witness ==
    \E f \in 1..Len(res.flows) :
        /\ res.flows[f].tried = <<1, 2, 3>>
        /\ res.flows[f].outcome = "NotAllowedError"
        /\ res.flows[f].aborted = 0
        /\ res.flows[f].dl = 1

\* C14: any two handleDownload invocations on one result screen have different
\* filenames.
C14_UniqueFilenames ==
    \A a, b \in 1..Len(res.downloads) :
        a # b => res.downloads[a].name # res.downloads[b].name

\* C15: the template selected at Start is the template of the session: the
\* camera screen requires that template's photo count and the composer is
\* called with that template.
C15_SessionTemplate ==
    /\ screen = "camera" => TOTAL_PHOTOS = TotalPhotosFor(selectedTemplate)
    /\ gen.phase # "idle" => gen.options.template = selectedTemplate

\* C16: a session with the classic template hands exactly 4 photos to the
\* composer, and its strip has 4 photo slots and neither confetti nor vignette.
C16_ClassicFourPhotos ==
    /\ (screen = "processing" /\ selectedTemplate = "classic") => Len(photos) = 4
    /\ (screen = "result" /\ selectedTemplate = "classic") =>
          /\ Len(finalStrip[1].urls) = 4
          /\ \A j \in 1..Len(finalStrip[1].log) :
                finalStrip[1].log[j].op \notin {"confetti", "vignette"}

\* min(n, cap): cap is 4 for grid and polaroid, none for classic.
ExpectedPlacements(template, n) ==
    IF template \in {"grid", "polaroid"} THEN Min(n, 4) ELSE n

\* C17: for n >= 1 photos getTemplatePlacements returns min(n, cap) placements,
\* cap 4 for grid and polaroid and none for classic; exactly the photos 1 to
\* min(n, cap) get a decode and can be drawn, photo i at placement i, and the
\* photos beyond are skipped: never drawn, and the composite still resolves
\* once the others have settled (unless the encode fails).
C17_Placements ==
    gen.phase # "idle" =>
        LET n == Len(gen.urls)
            template == gen.options.template
            expected == ExpectedPlacements(template, n)
        IN  /\ Len(Placements(template, n)) = expected
            /\ \A i \in 1..n : (gen.decode[i] = "skipped") <=> (i > expected)
            /\ Drawn(gen) \subseteq 1..expected
            /\ \A i, j \in 1..expected :
                  i # j => Placements(template, n)[i] # Placements(template, n)[j]
            /\ (AllSettled(gen) /\ gen.timer) =>
                  \/ gen.phase = "resolved" /\ gen.result = "image"
                  \/ gen.enc \in {"throws", "empty"}

C17_Witness ==
    /\ gen.options.template = "grid" /\ Len(gen.urls) = 5
    /\ gen.phase = "resolved"
    /\ gen.decode[5] = "skipped"
    /\ Drawn(gen) = 1..4

\* C18: the mute preference round-trips through localStorage: once a camera
\* screen was mounted the stored item is the string of !isMuted, after every
\* toggleMute and after the unmount; a camera screen mounting starts with the
\* isMuted the previous camera screen last had, and with false when there was
\* none (nothing stored).
C18_MuteRoundTrip ==
    [][/\ mounts = 0 => localStorage = Null /\ ~isMuted
       /\ mounts > 0 => localStorage = Some(BoolToString(~isMuted))
       /\ (cam' # 0 /\ cam' # cam) =>
             /\ localStorage = Null => ~isMuted'
             /\ mounts > 0 => isMuted' = isMuted
       /\ (cam' = cam /\ isMuted' # isMuted) =>
             localStorage' = Some(BoolToString(~isMuted'))]_vars

C18_Witness ==
    /\ mounts >= 2 /\ cam = mounts
    /\ isMuted /\ localStorage = Some("false")

\* C19: without a click and without a camera screen mounting, no startCamera
\* call begins: a mount or a switchCamera click makes one call, of at most
\* three getUserMedia requests, and the code does not re-acquire on its own.
C19_NoSelfReacquire ==
    [][(clicks' = clicks /\ mounts' = mounts) => NumCalls' = NumCalls]_vars

\* C20: while the screen is camera, App's photo list is empty and finalStrip is
\* null.
C20_CameraStateReset == screen = "camera" => photos = <<>> /\ finalStrip = Null

C20_Witness ==
    /\ screen = "camera" /\ mounts >= 2
    /\ \E i \in 1..mounts : delivered[i] = 1


\* The photos drawn on the canvas, in drawing order.
DrawOrder(g) ==
    LET ph == SelectSeq(g.log, LAMBDA o : o.op = "photo")
    IN  [j \in 1..Len(ph) |-> ph[j].i]

\* C21: with the polaroid template the photos are drawn in increasing index
\* order, whatever the order in which the decodes complete.
C21_PolaroidDrawOrder ==
    gen.options.template = "polaroid" => Increasing(DrawOrder(gen))

OpRank(name) ==
    CASE name = "header" -> 0
      [] name = "photo" -> 1
      [] name = "footer" -> 2
      [] name = "confetti" -> 3
      [] name = "vignette" -> 4
      [] name = "encode" -> 5

CountOp(g, name) == Cardinality({j \in 1..Len(g.log) : g.log[j].op = name})

\* C22: the header is the first thing drawn, before any photo; footer, confetti,
\* vignette and encode come in that order, once each (the effects when their
\* option is set), after the last photo and only when every decode has settled;
\* no photo is drawn after them; when the timeout settled the promise none of
\* footer, effects and encode is performed, then or later.
C22_ComposeOrder ==
    gen.canvas /\ gen.log # <<>> =>
        /\ gen.log[1].op = "header" /\ CountOp(gen, "header") = 1
        /\ \A j, k \in 1..Len(gen.log) :
              j < k => OpRank(gen.log[j].op) <= OpRank(gen.log[k].op)
        /\ HasOp(gen, "footer") =>
              /\ AllSettled(gen)
              /\ CountOp(gen, "footer") = 1 /\ CountOp(gen, "encode") = 1
              /\ CountOp(gen, "confetti") = (IF gen.options.showConfetti THEN 1 ELSE 0)
              /\ CountOp(gen, "vignette") = (IF gen.options.showVignette THEN 1 ELSE 0)
              /\ gen.result # "Photo processing timeout"
        /\ ~HasOp(gen, "footer") =>
              ~HasOp(gen, "confetti") /\ ~HasOp(gen, "vignette") /\ ~HasOp(gen, "encode")
        /\ gen.result = "Photo processing timeout" => ~HasOp(gen, "footer")
        /\ (AllSettled(gen) /\ gen.timer) => HasOp(gen, "footer")

\* The timeout fired first and the decodes completed after it.
C22_Witness ==
    /\ gen.result = "Photo processing timeout"
    /\ gen.options.showConfetti /\ gen.options.showVignette
    /\ Len(gen.decode) >= 2 /\ AllSettled(gen)
    /\ Len(DrawOrder(gen)) >= 2

\* An instance that is not mounted while its countdown is under way: it was
\* unmounted during the countdown.
Orphaned(i) == i \in 1..mounts /\ cam # i /\ (interval[i] \/ capTimer[i])

\* C26: a countdown whose camera screen was cancelled while it ran appends no
\* photo and calls onPhotosCaptured never: no step of its interval or capture
\* timer changes the screen, a photo list or the strip, and no hand-off timer of
\* its instance is or gets armed.
C26_CancelledCountdown ==
    [][\A i \in Insts : Orphaned(i) =>
          /\ handoff[i] = Null /\ handoff'[i] = Null
          /\ delivered'[i] = delivered[i]
          /\ (interval'[i] # interval[i] \/ capTimer'[i] # capTimer[i]
                 \/ countdown'[i] # countdown[i]) =>
                UNCHANGED <<screen, photos, finalStrip, camPhotos, procPc>>]_vars

\* The countdown of a cancelled camera screen has reached 0: its capture timer
\* is armed.
C26_Witness ==
    \E i \in Insts : Orphaned(i) /\ capTimer[i] /\ delivered[i] = 0 /\ screen = "landing"

\* C27: every photo in the camera screen's list is a frame of a video that
\* had a stream attached and shows it, never the empty image of a video
\* without a frame.
C27_PhotosHaveFrame ==
    \A j \in 1..Len(camPhotos) : camPhotos[j].kind = "jpeg"

LastDelivered == CHOOSE i \in Insts :
    delivered[i] > 0 /\ \A j \in Insts : delivered[j] > 0 => j <= i

SwitchDisabled == cam # 0 /\ (isSwitching \/ isCapturing)

\* C29: whenever isSwitching is true it is false again later, and so the
\* switch button, disabled while isSwitching or isCapturing, is enabled again
\* later (the screen unmounting ends both), the timers firing and the
\* getUserMedia requests settling; and a click made while the button is
\* disabled and leaving the camera screen mounted changes neither facingMode
\* nor isSwitching and starts no startCamera call.
C29_SwitchEnds ==
    /\ (cam # 0 /\ isSwitching) ~> ~isSwitching
    /\ SwitchDisabled ~> ~SwitchDisabled
    /\ [][(clicks' # clicks /\ cam' = cam /\ SwitchDisabled) =>
             /\ facingMode' = facingMode
             /\ isSwitching' = isSwitching
             /\ NumCalls' = NumCalls]_vars

\* C30: the filter put on a captured photo is the one selected when its
\* countdown was started: a starting countdown takes the selected filter, it
\* keeps it while it runs whatever the filter button does, and the photo its
\* capture appends carries it.
C30_FilterOfCountdown ==
    [][(cam' = cam /\ cam # 0) =>
          /\ (~isCapturing /\ isCapturing') => cdFilter' = currentFilter
          /\ (isCapturing /\ isCapturing') => cdFilter' = cdFilter
          /\ camPhotos' # camPhotos =>
                /\ isCapturing
                /\ camPhotos' = Append(camPhotos, Last(camPhotos'))
                /\ Last(camPhotos').filter = cdFilter]_vars

\* A first photo without filter, the second countdown started with bw, and the
\* filter button pressed while it runs.
C30_Witness ==
    /\ cam # 0 /\ Len(camPhotos) = 1 /\ camPhotos[1].filter = "none"
    /\ isCapturing /\ cdFilter = "bw" /\ currentFilter = "vintage"

\* The rectangle of the strip left to the photos by getTemplatePlacements.
AreaLeft == PADDING
AreaTop == HEADER_HEIGHT
AreaWidth == STRIP_WIDTH - 2 * PADDING
AreaHeight == STRIP_HEIGHT - HEADER_HEIGHT - FOOTER_HEIGHT

\* C23: for a classic strip of N >= 1 photos getClassicPlacements returns N
\* rows of one height h = (1570 - 20 (N - 1)) / N, all of width 1000 at x = 40,
\* the first at y = 200, each row 20 below the end of the row before it (so no
\* two overlap), the last ending at 1770: N h + 20 (N - 1) = 1570.
C23_ClassicRows ==
    calc.fn = "classic" =>
        LET N == calc.count
            out == calc.out
            h == out[1].h
        IN  /\ Len(out) = N
            /\ XLess(Zero, h)
            /\ XMul(Num(N), h) = Num(AreaHeight - 20 * (N - 1))
            /\ \A i \in 1..N :
                  out[i].h = h /\ out[i].w = Num(AreaWidth) /\ out[i].x = Num(AreaLeft)
            /\ out[1].y = Num(AreaTop)
            /\ \A i \in 1..(N - 1) :
                  /\ out[i + 1].y = XAdd(XAdd(out[i].y, h), Num(20))
                  /\ XLeq(XAdd(out[i].y, h), out[i + 1].y)
            /\ XAdd(out[N].y, h) = Num(AreaTop + AreaHeight)
            /\ XAdd(XMul(Num(N), h), Num(20 * (N - 1))) = Num(AreaHeight)

\* C24: for a grid of 4 photos getGridPlacements returns four cells of one
\* size that do not overlap and lie inside the area left to the photos, photo
\* 1 in column 0 of row 0, photo 2 in column 1 of row 0, photo 3 in column 0 of
\* row 1, photo 4 in column 1 of row 1; for k < 4 photos it returns the first k
\* of these cells, unchanged.
C24_GridCells ==
    calc.fn = "grid" =>
        LET k == calc.count
            out == calc.out
            four == getGridPlacements(Num(AreaLeft), Num(AreaTop), Num(AreaWidth),
                                      Num(AreaHeight), 4)
            right(c) == XAdd(c.x, c.w)
            bottom(c) == XAdd(c.y, c.h)
        IN  /\ Len(four) = 4
            /\ \A i \in 1..4 :
                  /\ four[i].w = four[1].w /\ four[i].h = four[1].h
                  /\ XLess(Zero, four[i].w) /\ XLess(Zero, four[i].h)
                  /\ XLeq(Num(AreaLeft), four[i].x)
                  /\ XLeq(right(four[i]), Num(AreaLeft + AreaWidth))
                  /\ XLeq(Num(AreaTop), four[i].y)
                  /\ XLeq(bottom(four[i]), Num(AreaTop + AreaHeight))
            /\ \A i \in 1..4, j \in 1..4 :
                  i # j => \/ XLeq(right(four[i]), four[j].x)
                           \/ XLeq(right(four[j]), four[i].x)
                           \/ XLeq(bottom(four[i]), four[j].y)
                           \/ XLeq(bottom(four[j]), four[i].y)
            \* photo 1 is the top left cell, photo 2 the one to its right, photo
            \* 3 the one below it, photo 4 the one to the right of photo 3
            /\ four[1].x = four[3].x /\ four[2].x = four[4].x
            /\ four[1].y = four[2].y /\ four[3].y = four[4].y
            /\ XLess(four[1].x, four[2].x) /\ XLess(four[1].y, four[3].y)
            /\ out = SubSeq(four, 1, Min(k, 4))

\* Three photos in a grid: the third is the left cell of the second row.
C24_Witness ==
    /\ calc.fn = "grid" /\ calc.count = 3 /\ Len(calc.out) = 3
    /\ calc.out[3].x = Num(40) /\ calc.out[3].y = Num(995)
    /\ calc.out[3].w = Num(490) /\ calc.out[3].h = Num(775)

\* C25: the source rectangle drawCroppedImage passes to drawImage has the
\* aspect ratio of the target (sourceWidth * height = sourceHeight * width),
\* keeps one dimension of the image whole and crops the other symmetrically
\* about the centre, and lies inside the image; the destination rectangle is
\* the target slot.
C25_CropRect ==
    calc.fn = "crop" =>
        LET o == calc.out
            imgW == Num(calc.img.width)
            imgH == Num(calc.img.height)
        IN  /\ XMul(o.sw, Num(calc.h)) = XMul(o.sh, Num(calc.w))
            /\ \/ o.sw = imgW /\ o.sx = Zero
               \/ o.sh = imgH /\ o.sy = Zero
            /\ XAdd(XAdd(o.sx, o.sx), o.sw) = imgW
            /\ XAdd(XAdd(o.sy, o.sy), o.sh) = imgH
            /\ XLeq(Zero, o.sx) /\ XLeq(Zero, o.sy)
            /\ XLess(Zero, o.sw) /\ XLess(Zero, o.sh)
            /\ XLeq(XAdd(o.sx, o.sw), imgW) /\ XLeq(XAdd(o.sy, o.sh), imgH)
            /\ o.dx = Num(calc.x) /\ o.dy = Num(calc.y)
            /\ o.dw = Num(calc.w) /\ o.dh = Num(calc.h)

====
